---- MODULE Spec2Model ----
(***************************************************************************)
(* The tick pipeline of src/main.rs as a state machine: the WS reader task *)
(* (ingestor) feeding a bounded mpsc channel, the strategy + paper trader  *)
(* loop of main (engine) consuming it, and the /metrics handlers (readers) *)
(* sharing the METRICS mutex with the engine.                              *)
(*                                                                         *)
(* Numbers: the program computes prices, cash and equity in f64.  The      *)
(* model uses exact integer arithmetic; the band comparisons are cross-    *)
(* multiplied so that no division is needed.  f64 rounding is therefore    *)
(* not represented.  Price texts are sequences of one-character strings    *)
(* and are parsed digit by digit (the integer-literal part of the f64      *)
(* grammar); anything else fails to parse and becomes 0, as unwrap_or(0.0) *)
(* does.                                                                   *)
(***************************************************************************)
EXTENDS Integers, Sequences, FiniteSets, Bags, TLC

\* ------------------------------------------------------------------ bounds
\* The number of wire messages the transport delivers before the stream ends.
MaxMsgs == 3
\* The largest --ma-window the general specification draws.
MaxWindow == 3
\* The largest channel capacity the general specification draws.
MaxCap == 2
\* The number of concurrent /metrics handlers.
NumReaders == 2
\* The --ma-window of the lock-contention scenario: the smallest window with
\* which the feed drives the engine through all three critical sections.
ContentionWindow == 2

\* ------------------------------------------------------- program constants
DefaultWindow == 50
DefaultThresholdBps == 10
DefaultCapacity == 4096
BpsDenominator == 10000

\* ------------------------------------------------------------------ inputs
\* Price texts as they arrive in AggTrade.p.  The general specification draws
\* "100", "101", "-5" and "x"; the crossover scenario also uses "98".
P98 == <<"9", "8">>
P100 == <<"1", "0", "0">>
P101 == <<"1", "0", "1">>
FeedTexts == { P100, P101, <<"-", "5">>, <<"x">> }
PriceTexts == FeedTexts \cup { P98 }
\* AggTrade.T values (ms) and the values SystemTime::now() may return (ms).
TradeTimes == {2}
Clock == {1, 3}
\* --threshold-bps values the general specification draws.
Thresholds == {0, DefaultThresholdBps}

\* AggTrade: the fields the program reads (p and T); the others are carried
\* through deserialization only.
AggTrade == [p : PriceTexts, T : TradeTimes]
SomeTrade == CHOOSE t \in AggTrade : TRUE

\* A WebSocket message.  A Text message carries a JSON text: json_ok says it
\* parses as JSON, wrapped that the trade sits under a "data" key, shape_ok that
\* the object has every AggTrade field with the right JSON type, tr the fields.
Msg(kind, json_ok, wrapped, shape_ok, tr) ==
    [kind |-> kind, json_ok |-> json_ok, wrapped |-> wrapped,
     shape_ok |-> shape_ok, tr |-> tr]
TextOf(p) == { Msg("Text", TRUE, w, TRUE, [p |-> p, T |-> t]) : w \in BOOLEAN, t \in TradeTimes }
TextTrades == UNION { TextOf(p) : p \in FeedTexts }
TextMalformed ==
    { Msg("Text", FALSE, FALSE, FALSE, SomeTrade),
      Msg("Text", TRUE, FALSE, FALSE, SomeTrade),
      Msg("Text", TRUE, TRUE, FALSE, SomeTrade) }
Ignored == { Msg(k, FALSE, FALSE, FALSE, SomeTrade) : k \in {"Binary", "Ping", "Pong"} }
CloseMsgs == { Msg("Close", FALSE, FALSE, FALSE, SomeTrade) }
\* A transport error: the stream yields Err(e) instead of a message.
WsErrors == { Msg("Err", FALSE, FALSE, FALSE, SomeTrade) }
WireMsgs == TextTrades \cup TextMalformed \cup Ignored \cup CloseMsgs \cup WsErrors

Readers == 1 .. NumReaders
Nobody == <<"none">>
Engine == <<"engine">>
Reader(r) == <<"reader", r>>

VARIABLES
    ma_window,      \* args.ma_window
    threshold_bps,  \* args.threshold_bps
    capacity,       \* the channel's capacity
    ws,             \* what the transport may still deliver: one set of messages per read
    ipc,            \* WS reader task: "connect", "read", "ended"
    queue,          \* the mpsc channel's buffered values
    epc,            \* main's position in the strategy loop
    prices,         \* Vec<f64> prices
    pos_qty,        \* pos_qty
    cash,           \* cash
    loc,            \* the loop body's locals: tr, price, decision, latency, equity
    lock,           \* holder of the METRICS mutex
    metrics,        \* the Metrics value behind the mutex
    rpc,            \* each metrics_handler's position
    quant,          \* each metrics_handler's view of lat_hist (lines 195-197)
    sent,           \* history: every try_send, with whether the channel took it
    consumed,       \* history: every trade recv returned
    signals,        \* history: the decision of every consumed trade
    fillLog         \* history: the side, pre-fill quantity and price of every paper fill

cfg == <<ma_window, threshold_bps, capacity>>
ingestorVars == <<ws, ipc>>
engineVars == <<epc, prices, pos_qty, cash, loc>>
readerVars == <<rpc, quant>>
hist == <<consumed, signals, fillLog>>
vars == <<ma_window, threshold_bps, capacity, ws, ipc, queue, epc, prices, pos_qty,
          cash, loc, lock, metrics, rpc, quant, sent, consumed, signals, fillLog>>

\* ------------------------------------------------------------ pure helpers
Digits == {"0", "1", "2", "3", "4", "5", "6", "7", "8", "9"}
DigitVal(c) ==
    CASE c = "0" -> 0 [] c = "1" -> 1 [] c = "2" -> 2 [] c = "3" -> 3 [] c = "4" -> 4
      [] c = "5" -> 5 [] c = "6" -> 6 [] c = "7" -> 7 [] c = "8" -> 8 [] c = "9" -> 9

RECURSIVE DigitsValue(_)
DigitsValue(s) ==
    IF s = <<>> THEN 0
    ELSE 10 * DigitsValue(SubSeq(s, 1, Len(s) - 1)) + DigitVal(s[Len(s)])

\* str::parse::<f64>() on an optionally signed run of digits: Ok(value), or Err.
ParseF64(txt) ==
    LET signed == txt # <<>> /\ Head(txt) \in {"-", "+"}
        body == IF signed THEN Tail(txt) ELSE txt
        ok == body # <<>> /\ \A i \in 1 .. Len(body) : body[i] \in Digits
    IN  IF ok
        THEN [ok |-> TRUE,
              val |-> IF signed /\ Head(txt) = "-" THEN 0 - DigitsValue(body)
                      ELSE DigitsValue(body)]
        ELSE [ok |-> FALSE, val |-> 0]

\* tr.p.parse().unwrap_or(0.0)
ParsePrice(txt) == IF ParseF64(txt).ok THEN ParseF64(txt).val ELSE 0

RECURSIVE Sum(_)
Sum(s) == IF s = <<>> THEN 0 ELSE Head(s) + Sum(Tail(s))

\* A push that evicts the newest price instead of the oldest.
PushPriceEvictNewest(w, p, n) ==
    LET pushed == Append(w, p)
    IN  IF Len(pushed) > n THEN SubSeq(pushed, 1, n) ELSE pushed

\* prices.push(price); if prices.len() > ma_window { prices.remove(0); }
PushPrice(w, p, n) ==
    LET pushed == Append(w, p)
    IN  IF Len(pushed) > n THEN Tail(pushed) ELSE pushed

\* price < up and price > dn, for the variant of the decision below.
BelowUpperStrict(p, w, bps) ==
    p * Len(w) * BpsDenominator < Sum(w) * (BpsDenominator + bps)
AboveLowerStrict(p, w, bps) ==
    p * Len(w) * BpsDenominator > Sum(w) * (BpsDenominator - bps)

\* price > up, with ma = sum/len and up = ma * (1 + bps/10000); len > 0.
AboveUpper(p, w, bps) ==
    p * Len(w) * BpsDenominator > Sum(w) * (BpsDenominator + bps)
\* price < dn, with dn = ma * (1 - bps/10000); len > 0.
BelowLower(p, w, bps) ==
    p * Len(w) * BpsDenominator < Sum(w) * (BpsDenominator - bps)

\* A decision that also triggers exactly at the band edge.
DecideNonStrict(qty, p, w, bps) ==
    IF qty <= 0 /\ ~BelowUpperStrict(p, w, bps) THEN "BUY"
    ELSE IF qty > 0 /\ ~AboveLowerStrict(p, w, bps) THEN "SELL"
    ELSE "NONE"

\* A decision that does not look at the position before buying.
DecideIgnoringPosition(qty, p, w, bps) ==
    IF AboveUpper(p, w, bps) THEN "BUY"
    ELSE IF qty > 0 /\ BelowLower(p, w, bps) THEN "SELL"
    ELSE "NONE"

\* The decision of lines 152-157.
Decide(qty, p, w, bps) ==
    IF qty <= 0 /\ AboveUpper(p, w, bps) THEN "BUY"
    ELSE IF qty > 0 /\ BelowLower(p, w, bps) THEN "SELL"
    ELSE "NONE"

\* A fullness test that is off by one: it lets the event before the last through.
WindowNotFullOffByOne(w, n) == Len(w) + 1 < n

\* if prices.len() < args.ma_window { continue; }
WindowNotFull(w, n) == Len(w) < n

\* now_ms.saturating_sub(tr.T)
SaturatingSub(a, b) == IF a >= b THEN a - b ELSE 0

\* The trade a Text message deserializes to (lines 102-107), if any.
Deserialize(m) == [some |-> m.json_ok /\ m.shape_ok, tr |-> m.tr]

\* A send that makes room by dropping the oldest queued value.
TrySendDropOldest(q, t, cap) ==
    IF Len(q) < cap THEN Append(q, t) ELSE Append(Tail(q), t)

\* tx.try_send(t) on the buffered values q: the value is queued unless the
\* channel is full.
TrySend(q, t, cap) == IF Len(q) < cap THEN Append(q, t) ELSE q

NoLocals ==
    [tr |-> SomeTrade, price |-> 0, decision |-> "NONE", latency |-> 0, equity |-> 0]

MetricsDefault ==
    [trades |-> 0, decisions |-> 0, fills |-> 0, pnl |-> 0, last_price |-> 0,
     lat_hist |-> EmptyBag]

\* ------------------------------------------------------------------- Init
InitState ==
    /\ ipc = "connect"
    /\ queue = <<>>
    /\ epc = "recv"
    /\ prices = <<>>
    /\ pos_qty = 0
    /\ cash = 0
    /\ loc = NoLocals
    /\ lock = Nobody
    /\ metrics = MetricsDefault
    /\ rpc = [r \in Readers |-> "idle"]
    /\ quant = [r \in Readers |-> EmptyBag]
    /\ sent = <<>>
    /\ consumed = <<>>
    /\ signals = <<>>
    /\ fillLog = <<>>

Init ==
    /\ ma_window \in 1 .. MaxWindow
    /\ threshold_bps \in Thresholds
    /\ capacity \in 1 .. MaxCap
    /\ ws = [i \in 1 .. MaxMsgs |-> WireMsgs]
    /\ InitState

\* The crossover scenario: the default configuration, DefaultWindow trades at
\* 100, one at 101, one at 98, then whatever the transport delivers last.
InitCrossover ==
    /\ ma_window = DefaultWindow
    /\ threshold_bps = DefaultThresholdBps
    /\ capacity = DefaultCapacity
    /\ ws = [i \in 1 .. DefaultWindow |-> TextOf(P100)]
              \o << TextOf(P101), TextOf(P98), WireMsgs >>
    /\ InitState

\* The lock-contention scenario: one window and the default threshold, every
\* capacity and every feed of the general specification.
InitContention ==
    /\ ma_window = ContentionWindow
    /\ threshold_bps = DefaultThresholdBps
    /\ capacity \in 1 .. MaxCap
    /\ ws = [i \in 1 .. MaxMsgs |-> WireMsgs]
    /\ InitState

\* ------------------------------------------------- WS reader task (ingestor)
\* connect_async(url).await succeeded.
ConnectOk ==
    /\ ipc = "connect"
    /\ ipc' = "read"
    /\ UNCHANGED <<cfg, ws, queue, engineVars, lock, metrics, readerVars, sent, hist>>

\* connect_async failed: expect("WS connect") panics, the task ends and drops tx.
ConnectPanic ==
    /\ ipc = "connect"
    /\ ipc' = "ended"
    /\ UNCHANGED <<cfg, ws, queue, engineVars, lock, metrics, readerVars, sent, hist>>

\* A forwarder that waits for room, as tx.send(t).await would.
WsTextWaitsForRoom ==
    /\ ipc = "read"
    /\ ws # <<>>
    /\ \E m \in Head(ws) :
          /\ m.kind = "Text"
          /\ LET trade_opt == Deserialize(m)
             IN  IF trade_opt.some
                 THEN /\ Len(queue) < capacity
                      /\ queue' = Append(queue, trade_opt.tr)
                      /\ sent' = Append(sent, [tr |-> trade_opt.tr, accepted |-> TRUE])
                 ELSE UNCHANGED <<queue, sent>>
    /\ ws' = Tail(ws)
    /\ UNCHANGED <<cfg, ipc, engineVars, lock, metrics, readerVars, hist>>

\* A reader task that treats a full channel as an error and ends.
WsTextEndsOnFull ==
    /\ ipc = "read"
    /\ ws # <<>>
    /\ \E m \in Head(ws) :
          /\ m.kind = "Text"
          /\ LET trade_opt == Deserialize(m)
             IN  IF trade_opt.some
                 THEN /\ queue' = TrySend(queue, trade_opt.tr, capacity)
                      /\ sent' = Append(sent, [tr |-> trade_opt.tr,
                                               accepted |-> queue' # queue])
                      /\ ipc' = IF queue' = queue THEN "ended" ELSE ipc
                 ELSE UNCHANGED <<queue, sent, ipc>>
    /\ ws' = Tail(ws)
    /\ UNCHANGED <<cfg, engineVars, lock, metrics, readerVars, hist>>

\* Ok(Message::Text(txt)): deserialize and, if it is a trade, try_send it.
WsText ==
    /\ ipc = "read"
    /\ ws # <<>>
    /\ \E m \in Head(ws) :
          /\ m.kind = "Text"
          /\ LET trade_opt == Deserialize(m)
             IN  IF trade_opt.some
                 THEN /\ queue' = TrySend(queue, trade_opt.tr, capacity)
                      /\ sent' = Append(sent, [tr |-> trade_opt.tr,
                                               accepted |-> queue' # queue])
                 ELSE UNCHANGED <<queue, sent>>
    /\ ws' = Tail(ws)
    /\ UNCHANGED <<cfg, ipc, engineVars, lock, metrics, readerVars, hist>>

\* Ok(Message::Binary(_)) | Ok(Message::Ping(_)) | Ok(Message::Pong(_)) => {}
WsIgnored ==
    /\ ipc = "read"
    /\ ws # <<>>
    /\ \E m \in Head(ws) : m.kind \in {"Binary", "Ping", "Pong"}
    /\ ws' = Tail(ws)
    /\ UNCHANGED <<cfg, ipc, queue, engineVars, lock, metrics, readerVars, sent, hist>>

\* Ok(Message::Close(_)) => break: the task ends and drops tx.
WsClose ==
    /\ ipc = "read"
    /\ ws # <<>>
    /\ \E m \in Head(ws) : m.kind = "Close"
    /\ ws' = Tail(ws)
    /\ ipc' = "ended"
    /\ UNCHANGED <<cfg, queue, engineVars, lock, metrics, readerVars, sent, hist>>

\* Err(e) => break: the task ends and drops tx.
WsErr ==
    /\ ipc = "read"
    /\ ws # <<>>
    /\ \E m \in Head(ws) : m.kind = "Err"
    /\ ws' = Tail(ws)
    /\ ipc' = "ended"
    /\ UNCHANGED <<cfg, queue, engineVars, lock, metrics, readerVars, sent, hist>>

\* read.next() returns None: the stream is over, the task ends and drops tx.
WsEnd ==
    /\ ipc = "read"
    /\ ws = <<>>
    /\ ipc' = "ended"
    /\ UNCHANGED <<cfg, ws, queue, engineVars, lock, metrics, readerVars, sent, hist>>

Ingestor == ConnectOk \/ ConnectPanic \/ WsText \/ WsIgnored \/ WsClose \/ WsErr \/ WsEnd

\* --------------------------------------------- strategy + paper trader (engine)
\* A channel that never closes, as if main kept a Sender of its own.
ClosedNever == FALSE

\* The channel is closed once every Sender is dropped: tx lives in the WS task.
Closed == ipc = "ended"

\* A consumer that takes the newest buffered value instead of the oldest.
RecvNewestFirst ==
    /\ epc = "recv"
    /\ queue # <<>>
    /\ LET tr == queue[Len(queue)]
           price == ParsePrice(tr.p)
       IN  /\ queue' = SubSeq(queue, 1, Len(queue) - 1)
           /\ prices' = PushPrice(prices, price, ma_window)
           /\ loc' = [NoLocals EXCEPT !.tr = tr, !.price = price]
           /\ consumed' = Append(consumed, tr)
    /\ epc' = "lock_trades"
    /\ UNCHANGED <<cfg, ingestorVars, pos_qty, cash, lock, metrics, readerVars, sent,
                   signals, fillLog>>

\* rx.recv() returns Some(tr): parse the price and push it into the window.
Recv ==
    /\ epc = "recv"
    /\ queue # <<>>
    /\ LET tr == Head(queue)
           price == ParsePrice(tr.p)
       IN  /\ queue' = Tail(queue)
           /\ prices' = PushPrice(prices, price, ma_window)
           /\ loc' = [NoLocals EXCEPT !.tr = tr, !.price = price]
           /\ consumed' = Append(consumed, tr)
    /\ epc' = "lock_trades"
    /\ UNCHANGED <<cfg, ingestorVars, pos_qty, cash, lock, metrics, readerVars, sent,
                   signals, fillLog>>

\* rx.recv() returns None: the channel is closed and drained; the loop ends.
RecvNone ==
    /\ epc = "recv"
    /\ queue = <<>>
    /\ Closed
    /\ epc' = "done"
    /\ UNCHANGED <<cfg, ingestorVars, queue, prices, pos_qty, cash, loc, lock, metrics,
                   readerVars, sent, hist>>

\* METRICS.lock().unwrap() by main, at the program point at, moving to next.
EngineLock(at, next) ==
    /\ epc = at
    /\ lock = Nobody
    /\ lock' = Engine
    /\ epc' = next
    /\ UNCHANGED <<cfg, ingestorVars, queue, prices, pos_qty, cash, loc, metrics,
                   readerVars, sent, hist>>

LockTrades == EngineLock("lock_trades", "trades")

\* A trade counter that counts only the events that find the window full.
IncrTradesOnlyWhenFull ==
    /\ epc = "trades"
    /\ metrics' = [metrics EXCEPT
                     !.trades = IF WindowNotFull(prices, ma_window) THEN @ ELSE @ + 1]
    /\ epc' = "last_price"
    /\ UNCHANGED <<cfg, ingestorVars, queue, prices, pos_qty, cash, loc, lock,
                   readerVars, sent, hist>>

\* m.trades += 1
IncrTrades ==
    /\ epc = "trades"
    /\ metrics' = [metrics EXCEPT !.trades = @ + 1]
    /\ epc' = "last_price"
    /\ UNCHANGED <<cfg, ingestorVars, queue, prices, pos_qty, cash, loc, lock,
                   readerVars, sent, hist>>

\* A metrics update that also marks the position to the event's price.
SetLastPriceMarksToMarket ==
    /\ epc = "last_price"
    /\ metrics' = [metrics EXCEPT !.last_price = loc.price,
                                  !.pnl = cash + pos_qty * loc.price]
    /\ lock' = Nobody
    /\ IF WindowNotFull(prices, ma_window)
       THEN /\ epc' = "recv"
            /\ loc' = NoLocals
            /\ signals' = Append(signals, "NONE")
       ELSE /\ epc' = "eval"
            /\ UNCHANGED <<loc, signals>>
    /\ UNCHANGED <<cfg, ingestorVars, queue, prices, pos_qty, cash, readerVars, sent,
                   consumed, fillLog>>

\* m.last_price = price; the guard drops; continue while the window is not full.
SetLastPrice ==
    /\ epc = "last_price"
    /\ metrics' = [metrics EXCEPT !.last_price = loc.price]
    /\ lock' = Nobody
    /\ IF WindowNotFull(prices, ma_window)
       THEN /\ epc' = "recv"
            /\ loc' = NoLocals
            /\ signals' = Append(signals, "NONE")
       ELSE /\ epc' = "eval"
            /\ UNCHANGED <<loc, signals>>
    /\ UNCHANGED <<cfg, ingestorVars, queue, prices, pos_qty, cash, readerVars, sent,
                   consumed, fillLog>>

\* ma, up, dn and the decision; on a decision, the latency now - tr.T.
Evaluate ==
    /\ epc = "eval"
    /\ LET d == Decide(pos_qty, loc.price, prices, threshold_bps)
       IN  /\ signals' = Append(signals, d)
           /\ IF d = "NONE"
              THEN /\ epc' = "recv"
                   /\ loc' = NoLocals
              ELSE /\ epc' = "lock_decisions"
                   /\ \E now_ms \in Clock :
                         loc' = [loc EXCEPT !.decision = d,
                                            !.latency = SaturatingSub(now_ms, loc.tr.T)]
    /\ UNCHANGED <<cfg, ingestorVars, queue, prices, pos_qty, cash, lock, metrics,
                   readerVars, sent, consumed, fillLog>>

LockDecisions == EngineLock("lock_decisions", "decisions")

\* The decision counter in a critical section of its own: the guard drops
\* after the increment, and the sample is recorded without it.
IncrDecisionsOwnSection ==
    /\ epc = "decisions"
    /\ metrics' = [metrics EXCEPT !.decisions = @ + 1]
    /\ lock' = Nobody
    /\ epc' = "record"
    /\ UNCHANGED <<cfg, ingestorVars, queue, prices, pos_qty, cash, loc,
                   readerVars, sent, hist>>

\* m.decisions += 1
IncrDecisions ==
    /\ epc = "decisions"
    /\ metrics' = [metrics EXCEPT !.decisions = @ + 1]
    /\ epc' = "record"
    /\ UNCHANGED <<cfg, ingestorVars, queue, prices, pos_qty, cash, loc, lock,
                   readerVars, sent, hist>>

\* A record whose error is swallowed: no sample is added.
RecordLatencyLost ==
    /\ epc = "record"
    /\ lock' = Nobody
    /\ epc' = "fill"
    /\ UNCHANGED <<cfg, ingestorVars, queue, prices, pos_qty, cash, loc, metrics,
                   readerVars, sent, hist>>

\* let _ = m.lat_hist.record(latency); the guard drops.
RecordLatency ==
    /\ epc = "record"
    /\ metrics' = [metrics EXCEPT !.lat_hist = @ (+) SetToBag({loc.latency})]
    /\ lock' = Nobody
    /\ epc' = "fill"
    /\ UNCHANGED <<cfg, ingestorVars, queue, prices, pos_qty, cash, loc, readerVars,
                   sent, hist>>

\* A fill whose BUY arm charges price * pos_qty before setting pos_qty.
FillChargesOldQuantity ==
    /\ epc = "fill"
    /\ IF loc.decision = "BUY"
       THEN /\ cash' = cash - loc.price * pos_qty
            /\ pos_qty' = 1
       ELSE IF loc.decision = "SELL"
       THEN /\ cash' = cash + loc.price * pos_qty
            /\ pos_qty' = 0
       ELSE UNCHANGED <<pos_qty, cash>>
    /\ loc' = [loc EXCEPT !.equity = cash' + pos_qty' * loc.price]
    /\ fillLog' = Append(fillLog, [side |-> loc.decision, qty |-> pos_qty,
                                    price |-> loc.price])
    /\ epc' = "lock_fills"
    /\ UNCHANGED <<cfg, ingestorVars, queue, prices, lock, metrics, readerVars, sent,
                   consumed, signals>>

\* The paper fill at the current price (match side) and the equity after it.
Fill ==
    /\ epc = "fill"
    /\ IF loc.decision = "BUY"
       THEN /\ pos_qty' = 1
            /\ cash' = cash - loc.price * pos_qty'
       ELSE IF loc.decision = "SELL"
       THEN /\ cash' = cash + loc.price * pos_qty
            /\ pos_qty' = 0
       ELSE UNCHANGED <<pos_qty, cash>>
    /\ loc' = [loc EXCEPT !.equity = cash' + pos_qty' * loc.price]
    /\ fillLog' = Append(fillLog, [side |-> loc.decision, qty |-> pos_qty,
                                    price |-> loc.price])
    /\ epc' = "lock_fills"
    /\ UNCHANGED <<cfg, ingestorVars, queue, prices, lock, metrics, readerVars, sent,
                   consumed, signals>>

LockFills == EngineLock("lock_fills", "fills")

\* A fill section that updates pnl but leaves the fill counter alone.
IncrFillsSkipped ==
    /\ epc = "fills"
    /\ epc' = "pnl"
    /\ UNCHANGED <<cfg, ingestorVars, queue, prices, pos_qty, cash, loc, lock, metrics,
                   readerVars, sent, hist>>

\* m.fills += 1
IncrFills ==
    /\ epc = "fills"
    /\ metrics' = [metrics EXCEPT !.fills = @ + 1]
    /\ epc' = "pnl"
    /\ UNCHANGED <<cfg, ingestorVars, queue, prices, pos_qty, cash, loc, lock,
                   readerVars, sent, hist>>

\* A gauge that is set to the cash alone.
SetPnlCashOnly ==
    /\ epc = "pnl"
    /\ metrics' = [metrics EXCEPT !.pnl = cash]
    /\ lock' = Nobody
    /\ epc' = "recv"
    /\ loc' = NoLocals
    /\ UNCHANGED <<cfg, ingestorVars, queue, prices, pos_qty, cash, readerVars, sent,
                   hist>>

\* m.pnl = equity; the guard drops; the loop body ends.
SetPnl ==
    /\ epc = "pnl"
    /\ metrics' = [metrics EXCEPT !.pnl = loc.equity]
    /\ lock' = Nobody
    /\ epc' = "recv"
    /\ loc' = NoLocals
    /\ UNCHANGED <<cfg, ingestorVars, queue, prices, pos_qty, cash, readerVars, sent,
                   hist>>

EngineStep ==
    \/ Recv \/ RecvNone \/ LockTrades \/ IncrTrades \/ SetLastPrice \/ Evaluate
    \/ LockDecisions \/ IncrDecisions \/ RecordLatency \/ Fill \/ LockFills
    \/ IncrFills \/ SetPnl

\* ----------------------------------------------------- metrics_handler (readers)
\* A scrape request arrives: the handler runs up to METRICS.lock().
Request(r) ==
    /\ rpc[r] = "idle"
    /\ rpc' = [rpc EXCEPT ![r] = "wait"]
    /\ UNCHANGED <<cfg, ingestorVars, queue, engineVars, lock, metrics, quant, sent, hist>>

\* let m = METRICS.lock().unwrap();
ReaderLock(r) ==
    /\ rpc[r] = "wait"
    /\ lock = Nobody
    /\ lock' = Reader(r)
    /\ rpc' = [rpc EXCEPT ![r] = "hist"]
    /\ UNCHANGED <<cfg, ingestorVars, queue, engineVars, metrics, quant, sent, hist>>

\* p50, p90, p99 = m.lat_hist.value_at_quantile(..): what the handler sees of
\* the histogram.
ReadQuantiles(r) ==
    /\ rpc[r] = "hist"
    /\ quant' = [quant EXCEPT ![r] = metrics.lat_hist]
    /\ rpc' = [rpc EXCEPT ![r] = "fmt"]
    /\ UNCHANGED <<cfg, ingestorVars, queue, engineVars, lock, metrics, sent, hist>>

\* What format!(..) renders at line 221: the counters and gauges as they are
\* now, with the histogram as seen at lines 195-197.
Snapshot(r) ==
    [trades |-> metrics.trades, decisions |-> metrics.decisions,
     fills |-> metrics.fills, pnl |-> metrics.pnl, last_price |-> metrics.last_price,
     lat_hist |-> quant[r]]

\* A handler that resets the aggregator once it has rendered it.
FormatAndReset(r) ==
    /\ rpc[r] = "fmt"
    /\ metrics' = MetricsDefault
    /\ lock' = Nobody
    /\ rpc' = [rpc EXCEPT ![r] = "idle"]
    /\ quant' = [quant EXCEPT ![r] = EmptyBag]
    /\ UNCHANGED <<cfg, ingestorVars, queue, engineVars, sent, hist>>

\* A handler that returns with the guard still alive.
FormatKeepsLock(r) ==
    /\ rpc[r] = "fmt"
    /\ rpc' = [rpc EXCEPT ![r] = "idle"]
    /\ quant' = [quant EXCEPT ![r] = EmptyBag]
    /\ UNCHANGED <<cfg, ingestorVars, queue, engineVars, lock, metrics, sent, hist>>

\* format!(..) and return: the guard drops.
Format(r) ==
    /\ rpc[r] = "fmt"
    /\ lock' = Nobody
    /\ rpc' = [rpc EXCEPT ![r] = "idle"]
    /\ quant' = [quant EXCEPT ![r] = EmptyBag]
    /\ UNCHANGED <<cfg, ingestorVars, queue, engineVars, metrics, sent, hist>>

ReaderStep == \E r \in Readers : Request(r) \/ ReaderLock(r) \/ ReadQuantiles(r) \/ Format(r)

Next == Ingestor \/ EngineStep \/ ReaderStep

Spec == Init /\ [][Next]_vars

SpecCrossover == InitCrossover /\ [][Next]_vars

\* Fair scheduling: the runtime keeps polling main, so an engine step that stays
\* possible is taken; the lock is granted fairly, so an engine acquisition that
\* is possible again and again is taken; a handler that holds the lock runs to
\* its return (it has no await point).  Nothing is assumed of the transport or
\* of the arrival of scrape requests.
EngineLockStep == LockTrades \/ LockDecisions \/ LockFills
EngineWork ==
    \/ Recv \/ RecvNone \/ IncrTrades \/ SetLastPrice \/ Evaluate \/ IncrDecisions
    \/ RecordLatency \/ Fill \/ IncrFills \/ SetPnl
Fairness ==
    /\ WF_vars(EngineWork)
    /\ SF_vars(EngineLockStep)
    /\ \A r \in Readers : WF_vars(ReadQuantiles(r) \/ Format(r))
FairSpec == Init /\ [][Next]_vars /\ Fairness

\* Fair scheduling with a fair lock: as FairSpec, and a handler whose
\* acquisition at line 194 is possible again and again gets the lock.
LockFairness == \A r \in Readers : SF_vars(ReaderLock(r))
FairLockSpec == InitContention /\ [][Next]_vars /\ Fairness /\ LockFairness

\* ======================================================================
\* Properties
\* ======================================================================
Min(a, b) == IF a <= b THEN a ELSE b
\* The prices of the trades consumed so far, in arrival order.
ConsumedPrices == [i \in 1 .. Len(consumed) |-> ParsePrice(consumed[i].p)]
LastN(s, k) == SubSeq(s, Len(s) - k + 1, Len(s))
\* The number of consumed trades that produced BUY or SELL.
RECURSIVE CountSignals(_)
CountSignals(sg) ==
    IF sg = <<>> THEN 0
    ELSE (IF Head(sg) = "NONE" THEN 0 ELSE 1) + CountSignals(Tail(sg))
\* The engine is between two events: everything consumed is fully processed.
BetweenEvents == epc \in {"recv", "done"}

\* C1: after every push the window holds at most ma_window prices, and they are
\* the last min(ma_window, pushes so far) consumed prices in arrival order.
C1_WindowBound ==
    /\ Len(prices) <= ma_window
    /\ prices = LastN(ConsumedPrices, Min(ma_window, Len(consumed)))
\* An eviction has happened and the oldest price differs from the one kept first.
C1_Witness ==
    /\ Len(consumed) > ma_window
    /\ ma_window >= 2
    /\ ConsumedPrices[1] # prices[1]
    /\ prices[1] # prices[2]

\* C2: while fewer than ma_window events have been consumed no signal has been
\* produced, and the ledger, decisions, fills, pnl and the latency histogram are
\* at their initial values; the first ma_window - 1 signals are NONE for ever.
C2_NoPrematureDecision ==
    /\ \A i \in 1 .. Len(signals) : i < ma_window => signals[i] = "NONE"
    /\ Len(consumed) < ma_window =>
          /\ pos_qty = 0 /\ cash = 0
          /\ metrics.decisions = 0 /\ metrics.fills = 0 /\ metrics.pnl = 0
          /\ metrics.lat_hist = EmptyBag
          /\ loc.decision = "NONE"
\* Two of three window slots are filled, the second event is fully processed,
\* and its price is above the band of the prices seen so far.
C2_Witness ==
    /\ ma_window = 3
    /\ Len(signals) = 2
    /\ BetweenEvents
    /\ AboveUpper(prices[2], prices, threshold_bps)

\* C3: when the engine evaluates a full window, the signal is BUY iff the
\* position is flat and price > upper, SELL iff it is long and price < lower,
\* and NONE otherwise (equality included); NONE leaves position and ledger alone
\* and ends the event; the BUY fill moves flat to long, the SELL fill long to
\* flat.
C3_EvaluateStep ==
    (epc = "eval" /\ epc' # "eval") =>
        LET flat == pos_qty = 0
            up_hit == loc.price * Len(prices) * BpsDenominator
                          > Sum(prices) * (BpsDenominator + threshold_bps)
            dn_hit == loc.price * Len(prices) * BpsDenominator
                          < Sum(prices) * (BpsDenominator - threshold_bps)
            sig == signals'[Len(signals')]
        IN  /\ Len(prices) = ma_window
            /\ prices[Len(prices)] = loc.price
            /\ Len(signals') = Len(signals) + 1
            /\ sig = "BUY" <=> (flat /\ up_hit)
            /\ sig = "SELL" <=> (~flat /\ dn_hit)
            /\ sig \in {"BUY", "SELL", "NONE"}
            /\ UNCHANGED <<pos_qty, cash, metrics>>
            /\ sig = "NONE" => epc' = "recv"
            /\ sig # "NONE" => loc'.decision = sig /\ epc' = "lock_decisions"
C3_FillStep ==
    (epc = "fill" /\ epc' # "fill") =>
        /\ loc.decision = "BUY" => pos_qty = 0 /\ pos_qty' = 1
        /\ loc.decision = "SELL" => pos_qty = 1 /\ pos_qty' = 0
        /\ loc.decision \in {"BUY", "SELL"}
C3_LedgerFrame ==
    (epc # "fill") => UNCHANGED <<pos_qty, cash>>
\* C3, as one property of every step: the evaluation follows the strict rule,
\* the fill moves the position as decided, and nothing else touches the ledger.
C3_TransitionRule ==
    [][C3_EvaluateStep /\ C3_FillStep /\ C3_LedgerFrame]_vars
\* After a BUY, a price exactly on the lower band edge of a full window of two
\* prices: the event ended without a signal and the position is still long.
C3_Witness ==
    /\ BetweenEvents
    /\ ma_window = 2
    /\ Len(signals) = 3
    /\ signals[2] = "BUY"
    /\ signals[3] = "NONE"
    /\ pos_qty = 1
    /\ prices[2] * Len(prices) * BpsDenominator
          = Sum(prices) * (BpsDenominator - threshold_bps)

\* C4: on a constant price series no BUY or SELL is ever produced, the position
\* stays flat and decisions stays 0.
ConstantSeries ==
    \A i, j \in 1 .. Len(consumed) : ConsumedPrices[i] = ConsumedPrices[j]
\* C4, as a property of every state: a constant series so far, so no signal.
C4_ConstantSeriesNoSignal ==
    ConstantSeries =>
        /\ \A i \in 1 .. Len(signals) : signals[i] = "NONE"
        /\ pos_qty = 0
        /\ metrics.decisions = 0

\* C5: window 50, threshold 10 bps, flat with cash 0: after 50 events at 100 no
\* signal has fired; the next event at 101 gives BUY and leaves quantity 1,
\* cash -101, equity 0; the next at 98 gives SELL and leaves quantity 0,
\* cash -3, equity -3.
Script(k) == [i \in 1 .. k |-> IF i <= 50 THEN 100 ELSE IF i = 51 THEN 101 ELSE 98]
Processed(k) == BetweenEvents /\ Len(consumed) = k /\ Len(signals) = k
EquityKnown == epc \in {"lock_fills", "fills", "pnl"}
\* C5, as a property of every state of the scripted run.
C5_Crossover ==
    (ma_window = 50 /\ threshold_bps = 10) =>
        /\ (Len(consumed) <= 50 /\ ConsumedPrices = Script(Len(consumed))) =>
              /\ \A i \in 1 .. Len(signals) : signals[i] = "NONE"
              /\ pos_qty = 0 /\ cash = 0
              /\ metrics.decisions = 0 /\ metrics.fills = 0
        /\ (Len(consumed) = 51 /\ ConsumedPrices = Script(51)) =>
              /\ Len(signals) = 51 => signals[51] = "BUY"
              /\ EquityKnown => pos_qty = 1 /\ cash = 0 - 101 /\ loc.equity = 0
              /\ Processed(51) =>
                    pos_qty = 1 /\ cash = 0 - 101 /\ cash + pos_qty * 101 = 0
                    /\ metrics.pnl = 0 /\ metrics.fills = 1
        /\ (Len(consumed) = 52 /\ ConsumedPrices = Script(52)) =>
              /\ Len(signals) = 52 => signals[52] = "SELL"
              /\ EquityKnown => pos_qty = 0 /\ cash = 0 - 3 /\ loc.equity = 0 - 3
              /\ Processed(52) =>
                    pos_qty = 0 /\ cash = 0 - 3 /\ cash + pos_qty * 98 = 0 - 3
                    /\ metrics.pnl = 0 - 3 /\ metrics.fills = 2
\* The whole scenario has been processed: 50 at 100, 101, 98, two fills.
C5_Witness ==
    /\ ma_window = 50 /\ threshold_bps = 10
    /\ Processed(52)
    /\ ConsumedPrices = Script(52)
    /\ signals[50] = "NONE" /\ signals[51] = "BUY" /\ signals[52] = "SELL"
    /\ metrics.fills = 2

\* C6: the quantity is 0 or 1 and is positive exactly when the position is long
\* (the last fill applied was a BUY); a BUY is applied only at quantity 0, a
\* SELL only at quantity 1; the fills alternate BUY, SELL, BUY, ... from BUY.
C6_LedgerPreconditions ==
    /\ pos_qty \in {0, 1}
    /\ pos_qty > 0 <=> (fillLog # <<>> /\ fillLog[Len(fillLog)].side = "BUY")
    /\ \A i \in 1 .. Len(fillLog) :
          /\ fillLog[i].side = (IF i % 2 = 1 THEN "BUY" ELSE "SELL")
          /\ fillLog[i].side = "BUY" => fillLog[i].qty = 0
          /\ fillLog[i].side = "SELL" => fillLog[i].qty = 1
\* A BUY, a SELL and a second BUY have been applied.
C6_Witness ==
    /\ Len(fillLog) = 3
    /\ pos_qty = 1

\* C8: whenever the engine is between events (or has terminated), decisions and
\* the number of latency samples both equal the number of consumed events that
\* produced BUY or SELL.
C8_MetricsConsistency ==
    BetweenEvents =>
        /\ metrics.decisions = CountSignals(signals)
        /\ BagCardinality(metrics.lat_hist) = CountSignals(signals)
\* The engine has terminated after a stream with two decisions.
C8_Witness ==
    /\ epc = "done"
    /\ CountSignals(signals) = 2
    /\ Len(signals) = 3

\* C9: the snapshot a handler is about to render (the histogram as it read it,
\* the counters as they are) has decisions equal to the number of samples.
C9_NoTornSnapshot ==
    \A r \in Readers :
        rpc[r] = "fmt" =>
            Snapshot(r).decisions = BagCardinality(Snapshot(r).lat_hist)
\* A handler renders a snapshot with one decision while the engine, in the
\* middle of that event, waits for the lock to count the fill, and the other
\* handler waits too.
C9_Witness ==
    /\ epc = "lock_fills"
    /\ \E r \in Readers :
          /\ rpc[r] = "fmt"
          /\ Snapshot(r).decisions = 1
          /\ Snapshot(r).fills = 0
          /\ \E o \in Readers \ {r} : rpc[o] = "wait"

\* C7: the queue never holds more than capacity events; a send that finds it
\* full drops the new event and leaves the queue as it is, any other send
\* appends; capacity + 1 sends into an empty queue that the consumer does not
\* drain drop exactly the last event and keep the first capacity in order.
C7_QueueBound ==
    /\ Len(queue) <= capacity
    /\ (consumed = <<>> /\ Len(sent) = capacity + 1) =>
          /\ queue = [i \in 1 .. capacity |-> sent[i].tr]
          /\ \A i \in 1 .. capacity : sent[i].accepted
          /\ ~sent[capacity + 1].accepted
C7_SendStep ==
    (sent' # sent) =>
        LET e == sent'[Len(sent')]
        IN  /\ Len(sent') = Len(sent) + 1
            /\ IF Len(queue) = capacity
               THEN queue' = queue /\ ~e.accepted
               ELSE queue' = Append(queue, e.tr) /\ e.accepted
\* C7: the bound and the drained-by-nobody case in every state, the drop policy
\* at every send.
C7_Backpressure == [](C7_QueueBound) /\ [][C7_SendStep]_vars
\* Three different trades were sent into an empty queue of capacity 2 that the
\* engine has not touched: the third was dropped.
C7_Witness ==
    /\ capacity = 2
    /\ consumed = <<>>
    /\ Len(sent) = 3
    /\ Len(queue) = 2
    /\ sent[1].tr # sent[2].tr /\ sent[2].tr # sent[3].tr /\ sent[1].tr # sent[3].tr
    /\ ~sent[3].accepted

\* C10: once the ingestor has ended (the queue is closed), the engine
\* eventually leaves its consume loop; when it has, the queue is closed and
\* empty and every accepted event has been consumed and processed; while the
\* queue is open and empty no engine step is taken.
RECURSIVE Accepted(_)
Accepted(sn) ==
    IF sn = <<>> THEN <<>>
    ELSE (IF Head(sn).accepted THEN <<Head(sn).tr>> ELSE <<>>) \o Accepted(Tail(sn))
C10_DoneOnlyWhenDrained ==
    epc = "done" =>
        /\ ipc = "ended"
        /\ queue = <<>>
        /\ consumed = Accepted(sent)
        /\ Len(signals) = Len(consumed)
C10_BlockedWhileOpenAndEmpty ==
    (epc = "recv" /\ queue = <<>> /\ ipc # "ended") =>
        UNCHANGED <<engineVars, metrics, consumed, signals, fillLog>>
HasKind(k) == ipc = "read" /\ ws # <<>> /\ \E m \in Head(ws) : m.kind = k
C11_SendEnabled ==
    /\ \A m \in (IF ipc = "read" /\ ws # <<>> THEN Head(ws) ELSE {}) :
          (m.kind = "Text" /\ Deserialize(m).some) =>
              ENABLED (WsText /\ sent' = Append(sent, [tr |-> m.tr,
                                                        accepted |-> Len(queue) < capacity]))
    /\ HasKind("Text") => ENABLED WsText
    /\ (ipc = "read" /\ ws = <<>>) => ENABLED WsEnd
C11_IngestorStep ==
    (ws' # ws \/ ipc' # ipc) =>
        /\ UNCHANGED <<lock, metrics, engineVars, readerVars, consumed, signals, fillLog>>
        /\ ipc = "read" => Len(ws') = Len(ws) - 1 \/ (ws = <<>> /\ ipc' = "ended")
        /\ sent' # sent => ipc' = "read"
\* C11, in every state and at every step.
C11_IngestorNeverBlocked == [](C11_SendEnabled) /\ [][C11_IngestorStep]_vars
\* The ingestor has a trade to forward while the queue is full, a handler
\* holds the lock and the engine waits for it.
C11_Witness ==
    /\ HasKind("Text")
    /\ Len(queue) = capacity
    /\ epc = "lock_trades"
    /\ \E r \in Readers : lock = Reader(r)

\* C12: no trade whose price text is not a number reaches the engine: every
\* consumed trade has a price text that parses, so no consumed price is the
\* placeholder of a failed parse.
C12_MalformedNeverReachesCore ==
    \A i \in 1 .. Len(consumed) : ParseF64(consumed[i].p).ok

\* C13: a BUY fill takes the price from the cash and sets the quantity to 1, a
\* SELL fill adds the price to the cash and sets the quantity to 0; the gauge
\* is then set to cash + quantity * price of the ledger after the fill at the
\* price of the event that triggered it, and keeps that value until the next
\* fill is published.
PnlPending == epc \in {"lock_fills", "fills", "pnl"}
C13_PnlIsEquity ==
    (fillLog # <<>> /\ ~PnlPending) =>
        metrics.pnl = cash + pos_qty * fillLog[Len(fillLog)].price
C13_FillStep ==
    (epc = "fill" /\ epc' # "fill") =>
        /\ loc.decision = "BUY" => cash' = cash - loc.price /\ pos_qty' = 1
        /\ loc.decision = "SELL" => cash' = cash + loc.price /\ pos_qty' = 0
        /\ loc'.equity = cash' + pos_qty' * loc.price
        /\ loc'.price = loc.price
C13_SetPnlStep ==
    (epc = "pnl" /\ epc' # "pnl") =>
        /\ metrics'.pnl = cash + pos_qty * loc.price
        /\ loc.price = fillLog[Len(fillLog)].price
        /\ UNCHANGED <<cash, pos_qty>>
\* C13, in every state and at every step.
C13_PnlAfterFill ==
    [](C13_PnlIsEquity) /\ [][C13_FillStep /\ C13_SetPnlStep]_vars
\* A BUY and a SELL at different prices have been applied and published: the
\* gauge shows a non-zero equity.
C13_Witness ==
    /\ BetweenEvents
    /\ Len(fillLog) = 2
    /\ metrics.fills = 2
    /\ fillLog[1].price # fillLog[2].price
    /\ metrics.pnl # 0

\* C14: at every step trades, decisions and fills do not decrease and together
\* grow by at most 1; a step of a handler or of the ingestor leaves the whole
\* aggregator as it is.
CounterSum(m) == m.trades + m.decisions + m.fills
C14_CounterStep ==
    /\ metrics'.trades >= metrics.trades
    /\ metrics'.decisions >= metrics.decisions
    /\ metrics'.fills >= metrics.fills
    /\ CounterSum(metrics') <= CounterSum(metrics) + 1
    /\ (rpc' # rpc \/ quant' # quant) => metrics' = metrics
    /\ (ws' # ws \/ ipc' # ipc) => metrics' = metrics
    /\ metrics' # metrics => epc' # epc
C14_CountersMonotonic == [][C14_CounterStep]_vars
\* All three counters have grown and a handler has just read the histogram
\* while the engine waits to count a fill.
C14_Witness ==
    /\ metrics.trades >= 2 /\ metrics.decisions = 2 /\ metrics.fills = 1
    /\ epc = "lock_fills"
    /\ \E r \in Readers : rpc[r] = "fmt"

\* The engine's positions inside one of its three critical sections, and the
\* positions where it waits for the lock.
EngineHolds == epc \in {"trades", "last_price", "decisions", "record", "fills", "pnl"}
EngineWaits == epc \in {"lock_trades", "lock_decisions", "lock_fills"}
ReaderHolds(r) == rpc[r] \in {"hist", "fmt"}
\* The holder is exactly the process inside a critical section; its next step
\* is possible whatever the queue and the other processes do; a free lock can be
\* taken by whoever waits for it.
C15_HolderCanStep ==
    /\ lock = Engine <=> EngineHolds
    /\ \A r \in Readers : lock = Reader(r) <=> ReaderHolds(r)
    /\ lock = Engine => ENABLED EngineWork
    /\ \A r \in Readers : lock = Reader(r) => ENABLED (ReadQuantiles(r) \/ Format(r))
    /\ (lock = Nobody /\ EngineWaits) => ENABLED EngineLockStep
    /\ \A r \in Readers : (lock = Nobody /\ rpc[r] = "wait") => ENABLED ReaderLock(r)
\* A process leaves its wait for the lock only as the new holder.
C15_AcquireStep ==
    /\ (EngineWaits /\ epc' # epc) => lock' = Engine
    /\ \A r \in Readers : (rpc[r] = "wait" /\ rpc'[r] # "wait") => lock' = Reader(r)
PastUpdate == Len(consumed) - (IF epc = "lock_trades" THEN 1 ELSE 0)
\* C16: whenever the engine does not hold the lock (the states a snapshot can
\* see), trades counts every consumed event past its metrics update, full
\* window or not, and last_price is the price of the trades-th consumed event.
C16_EveryEventCounted ==
    lock # Engine =>
        /\ metrics.trades = PastUpdate
        /\ metrics.trades >= 1 => metrics.last_price = ConsumedPrices[metrics.trades]
        /\ metrics.trades = 0 => metrics.last_price = 0
\* A handler renders two counted events while the window of three is not yet
\* full, the two at different prices.
C16_Witness ==
    /\ \E r \in Readers : rpc[r] = "fmt" /\ Snapshot(r).trades = 2
    /\ ma_window = 3
    /\ Len(prices) = 2
    /\ prices[1] # prices[2]
    /\ metrics.decisions = 0

\* The events the ingestor tried to send, in order.
Tried == [i \in 1 .. Len(sent) |-> sent[i].tr]
\* s is an order-preserving subsequence of t.
RECURSIVE IsSubseq(_, _)
IsSubseq(s, t) ==
    IF s = <<>> THEN TRUE
    ELSE IF t = <<>> THEN FALSE
    ELSE IF Head(s) = Head(t) THEN IsSubseq(Tail(s), Tail(t))
    ELSE IsSubseq(s, Tail(t))
\* The events consumed, followed by those still buffered, are exactly the
\* accepted sends in their order: nothing but the drops is missing, nothing is
\* repeated or moved.
C17_OrderKept ==
    /\ consumed \o queue = Accepted(sent)
    /\ IsSubseq(consumed, Tried)
\* Each consumption takes the oldest buffered event out of the queue, once.
C17_ConsumeStep ==
    consumed' # consumed =>
        /\ queue # <<>>
        /\ consumed' = Append(consumed, Head(queue))
        /\ queue' = Tail(queue)
        /\ sent' = sent
\* C17: the consumed sequence is the sequence of tried sends without the
\* dropped ones, in order; every accepted event is consumed at most once.
C17_ProcessingOrder == []C17_OrderKept /\ [][C17_ConsumeStep]_vars
\* Three sends of which the second was dropped on a full queue; the first and
\* the third, at different prices, have been consumed in that order.
C17_Witness ==
    /\ Len(sent) = 3
    /\ sent[1].accepted /\ ~sent[2].accepted /\ sent[3].accepted
    /\ consumed = <<sent[1].tr, sent[3].tr>>
    /\ sent[1].tr # sent[3].tr
    /\ sent[2].tr # sent[3].tr

\* A step in which try_send found the channel full.
DropStep == sent' # sent /\ ~sent'[Len(sent')].accepted
\* C18: a send on a full queue leaves the queue, the window, the position and
\* ledger, the lock, every counter and gauge, the handlers and the engine's
\* position as they were, and the ingestor goes on reading.
C18_DropFrame ==
    DropStep =>
        /\ Len(queue) = capacity
        /\ queue' = queue
        /\ prices' = prices /\ pos_qty' = pos_qty /\ cash' = cash
        /\ epc' = epc /\ loc' = loc
        /\ metrics' = metrics /\ lock' = lock
        /\ rpc' = rpc /\ quant' = quant
        /\ consumed' = consumed /\ signals' = signals /\ fillLog' = fillLog
        /\ ipc = "read" /\ ipc' = "read"
C18_DropLeavesNoTrace == [][C18_DropFrame]_vars
\* An event has just been dropped while the engine, with one event consumed and
\* counted, evaluates it, and the ingestor still reads.
C18_Witness ==
    /\ sent # <<>>
    /\ ~sent[Len(sent)].accepted
    /\ Len(queue) = capacity
    /\ metrics.trades = 1
    /\ epc = "eval"
    /\ ipc = "read"

\* C19: in every state, hence in whatever a handler renders, fills <= decisions
\* <= fills + 1 and decisions <= trades; between events fills = decisions.
C19_CountersCoupled ==
    /\ metrics.fills <= metrics.decisions
    /\ metrics.decisions <= metrics.fills + 1
    /\ metrics.decisions <= metrics.trades
    /\ BetweenEvents => metrics.fills = metrics.decisions
    /\ \A r \in Readers : rpc[r] = "fmt" =>
          /\ Snapshot(r).fills <= Snapshot(r).decisions
          /\ Snapshot(r).decisions <= Snapshot(r).fills + 1
          /\ Snapshot(r).decisions <= Snapshot(r).trades
\* A handler renders the second decision before its fill is counted.
C19_Witness ==
    \E r \in Readers :
        /\ rpc[r] = "fmt"
        /\ Snapshot(r).decisions = 2
        /\ Snapshot(r).fills = 1
        /\ Snapshot(r).trades > Snapshot(r).decisions

\* The profit of the completed round trips of a fill log that alternates BUY,
\* SELL: the sum of (sell price - buy price).
RECURSIVE Realized(_)
Realized(fl) ==
    IF Len(fl) < 2 THEN 0
    ELSE (fl[2].price - fl[1].price) + Realized(SubSeq(fl, 3, Len(fl)))
\* The fills whose pnl update is complete.
Settled == IF PnlPending THEN SubSeq(fillLog, 1, Len(fillLog) - 1) ELSE fillLog
\* The gauge is the realized profit of the settled fills; when the last settled
\* fill is a SELL (or there is none) it is also the ledger cash.
C20_GaugeIsRealized ==
    /\ \A i \in 1 .. Len(fillLog) :
          fillLog[i].side = (IF i % 2 = 1 THEN "BUY" ELSE "SELL")
    /\ metrics.pnl = Realized(Settled)
    /\ (~PnlPending /\ Len(fillLog) % 2 = 0) => metrics.pnl = cash
\* The pnl update after a BUY writes the cash held before the buy, which is the
\* value the gauge already has; the gauge changes nowhere but in the pnl update
\* after a SELL.
C20_GaugeStep ==
    /\ (epc = "pnl" /\ epc' # "pnl" /\ loc.decision = "BUY") =>
          /\ metrics'.pnl = cash + loc.price
          /\ metrics'.pnl = metrics.pnl
    /\ metrics'.pnl # metrics.pnl => (epc = "pnl" /\ loc.decision = "SELL")
====
